---- MODULE Spec2Model ----
(***************************************************************************)
(* Model of the CoreBluetooth GATT client                                  *)
(* (src/bleak/backends/corebluetooth/client.py) and of the server base     *)
(* class (src/bleak/backends/server.py).                                   *)
(*                                                                         *)
(* Strings are sequences of one-character strings, so that upper(),        *)
(* slicing and hexadecimal parsing are computed and not assumed.           *)
(* A 128-bit integer is a sequence of 16 octets, most significant first.   *)
(***************************************************************************)
EXTENDS Integers, Sequences, FiniteSets, TLC

VARIABLES
  \* ---- UUID normalizer harness
  uuid_in,            \* the caller's argument
  uuid_arg,           \* the argument of the current get_appropriate_uuid call
  uuid_ret,           \* the value the last call returned
  uuid_first,         \* the value the first call returned
  uuid_pc,            \* "parked" | "input" | "normalized" | "expanded" | "renormalized"
  \* ---- BleakClientCoreBluetooth
  _device_info,       \* self._device_info
  _services,          \* self._services
  _services_resolved, \* self._services_resolved
  services,           \* self.services, the Service Collection
  isConnected,        \* central_manager_delegate.isConnected
  session_resolved,   \* history: a discovery pass has completed in this connection
  pass_failed,        \* history: a discovery pass has failed in this connection
  pc,                 \* per task: "idle" or the adapter call it is suspended on
  frame,              \* per task: the locals of the suspended coroutine
  \* ---- what the step just taken exchanged with the callers and the adapter
  invoked,            \* the operation a caller invoked in it, with its arguments
  issued,             \* the adapter call it issued: <<call, native handle>>, or <<>>
  issued_args,        \* the arguments of that call after the native handle
  returned,           \* the result or the error it delivered to a caller
  called_back,        \* the callback it invoked: <<callback, uuid, data>>, or <<>>
  \* ---- the adapter's side of the session
  subscriptions,      \* per subscribed native characteristic: callback and uuid
  \* ---- BaseBleakServer in an "async with" statement
  srv_pc,             \* "outside" | "aenter" | "body" | "aexit" | "left"
  srv_trace,          \* what ran since the statement was entered, in order
  srv_exc,            \* the exception in flight: None, "start", "body" or "stop"
  srv_running,        \* whether the server is started
  srv_steps,          \* steps of the body taken
  srv_calls,          \* calls of start() and of stop() so far
  srv_uses            \* times the statement was entered

uuid_vars == <<uuid_in, uuid_arg, uuid_ret, uuid_first, uuid_pc>>

client_vars == <<_device_info, _services, _services_resolved, services, isConnected,
                 session_resolved, pass_failed,
                 pc, frame, invoked, issued, issued_args, returned, called_back,
                 subscriptions>>

server_vars == <<srv_pc, srv_trace, srv_exc, srv_running, srv_steps, srv_calls, srv_uses>>

vars == <<uuid_vars, client_vars, server_vars>>

None == "None"

(***************************************************************************)
(* Strings                                                                 *)
(***************************************************************************)
LowerCase == <<"a","b","c","d","e","f","g","h","i","j","k","l","m","n","o","p","q","r","s","t","u","v","w","x","y","z">>
UpperCase == <<"A","B","C","D","E","F","G","H","I","J","K","L","M","N","O","P","Q","R","S","T","U","V","W","X","Y","Z">>

\* lower-case letter -> upper-case letter
UpperOf ==
  [c \in {LowerCase[i] : i \in 1..Len(LowerCase)} |->
     UpperCase[CHOOSE i \in 1..Len(LowerCase) : LowerCase[i] = c]]

\* str.upper() on one character
upper_char(c) == IF c \in DOMAIN UpperOf THEN UpperOf[c] ELSE c

\* str.upper()
upper(s) == [i \in 1..Len(s) |-> upper_char(s[i])]

\* s[a:b] of Python, 0-based and end-exclusive
slice(s, a, b) == SubSeq(s, a + 1, b)

HexDigits == <<"0","1","2","3","4","5","6","7","8","9","A","B","C","D","E","F">>

\* upper-case hexadecimal digit -> value
HexValue ==
  [c \in {HexDigits[i] : i \in 1..16} |-> (CHOOSE i \in 1..16 : HexDigits[i] = c) - 1]

\* value of one hexadecimal digit, either case
hex_val(c) == HexValue[upper_char(c)]

\* format(x, 'X') of one nibble
hex_digit(n) == HexDigits[n + 1]

(***************************************************************************)
(* Integers of 128 bits as 16 octets, big-endian                           *)
(***************************************************************************)
RECURSIVE bit_and(_, _)
\* a & b on naturals
bit_and(a, b) ==
  IF a = 0 \/ b = 0 THEN 0
  ELSE (a % 2) * (b % 2) + 2 * bit_and(a \div 2, b \div 2)

\* a & b on 128-bit integers
int_and(a, b) == [i \in 1..16 |-> bit_and(a[i], b[i])]

\* int.from_bytes(data, byteorder='big'), widened to 16 octets
int_from_bytes(data) ==
  [i \in 1..16 |-> IF i <= 16 - Len(data) THEN 0 ELSE data[i - (16 - Len(data))]]

\* i.to_bytes(length=16, byteorder='big')
int_to_bytes(i) == i

(***************************************************************************)
(* CBUUID (Foundation): the octets of a UUID string and back               *)
(***************************************************************************)
\* the hexadecimal digits of a UUID string, dashes dropped
hex_only(s) == SelectSeq(s, LAMBDA c : c # "-")

\* CBUUID.alloc().initWithString_(s).data(): 2 octets for a 4-digit string,
\* 16 octets for the 8-4-4-4-12 form
CBUUID_data(s) ==
  LET h == hex_only(s)
  IN  [i \in 1..(Len(h) \div 2) |-> 16 * hex_val(h[2 * i - 1]) + hex_val(h[2 * i])]

\* the upper-case hexadecimal digits of a sequence of octets
hex_of(data) ==
  [i \in 1..(2 * Len(data)) |->
     IF i % 2 = 1 THEN hex_digit(data[(i + 1) \div 2] \div 16)
                  ELSE hex_digit(data[i \div 2] % 16)]

\* CBUUID.alloc().initWithData_(data).UUIDString()
CBUUID_UUIDString(data) ==
  LET h == hex_of(data)
  IN  IF Len(data) = 16
      THEN SubSeq(h, 1, 8) \o <<"-">> \o SubSeq(h, 9, 12) \o <<"-">> \o
           SubSeq(h, 13, 16) \o <<"-">> \o SubSeq(h, 17, 20) \o <<"-">> \o
           SubSeq(h, 21, 32)
      ELSE h

(***************************************************************************)
(* UUID normalizer: client.py, get_appropriate_uuid and its helpers        *)
(***************************************************************************)
test_uuid == <<"0","0","0","0","F","F","F","F","-","0","0","0","0","-","1","0","0","0","-","8","0","0","0","-","0","0","8","0","5","F","9","B","3","4","F","B">>

convert_uuid_to_int(_uuid) == int_from_bytes(CBUUID_data(_uuid))

convert_int_to_uuid(i) == CBUUID_UUIDString(int_to_bytes(i))

test_int == convert_uuid_to_int(test_uuid)

\* a slip in the comparison: the UUID is compared with the mask itself
is_uuid_16bit_compatible_exact(_uuid) ==
  LET uuid_int   == convert_uuid_to_int(_uuid)
      result_int == int_and(uuid_int, test_int)
  IN  result_int = test_int

is_uuid_16bit_compatible(_uuid) ==
  LET uuid_int   == convert_uuid_to_int(_uuid)
      result_int == int_and(uuid_int, test_int)
  IN  uuid_int = result_int

\* a slip in the slice: the digits are returned in the caller's letter case
get_appropriate_uuid_no_upper(_uuid) ==
  IF Len(_uuid) = 4 THEN upper(_uuid)
  ELSE IF is_uuid_16bit_compatible(_uuid) THEN slice(_uuid, 4, 8)
  ELSE upper(_uuid)

get_appropriate_uuid(_uuid) ==
  IF Len(_uuid) = 4 THEN upper(_uuid)
  ELSE IF is_uuid_16bit_compatible(_uuid) THEN upper(slice(_uuid, 4, 8))
  ELSE upper(_uuid)

\* the full form of a 4-digit short form: the Base UUID with the 16-bit
\* field set to the short form's value
to_full_form(short) ==
  LET base == convert_uuid_to_int(test_uuid)
      v    == CBUUID_data(short)
  IN  convert_int_to_uuid([i \in 1..16 |-> IF i = 3 THEN v[1] ELSE IF i = 4 THEN v[2] ELSE base[i]])

(***************************************************************************)
(* Inputs of the normalizer: 8-4-4-4-12 strings assembled from groups that *)
(* reach inside and outside the Base-UUID range, and 4-digit strings       *)
(***************************************************************************)
Group1 == { <<"0","0","0","0","2","a","3","7">>, <<"0","0","0","0","2","A","3","7">>,
            <<"0","0","0","0","1","8","0","d">>, <<"0","0","0","0","0","0","0","0">>,
            <<"0","0","0","1","2","A","3","7">>, <<"a","1","b","2","c","3","d","4">> }
Group2 == { <<"0","0","0","0">>, <<"1","2","3","4">> }
Group3 == { <<"1","0","0","0">>, <<"0","0","0","0">>, <<"5","6","7","8">> }
Group4 == { <<"8","0","0","0">>, <<"0","0","0","0">>, <<"9","a","b","c">> }
Group5 == { <<"0","0","8","0","5","f","9","b","3","4","f","b">>, <<"0","0","8","0","5","F","9","B","3","4","F","B">>,
            <<"0","0","0","0","0","0","0","0","0","0","0","0">>, <<"d","e","f","0","1","2","3","4","5","6","7","8">>,
            <<"0","0","8","0","5","F","9","B","3","4","F","A">> }

FullInputs ==
  { a \o <<"-">> \o b \o <<"-">> \o c \o <<"-">> \o d \o <<"-">> \o e :
      <<a, b, c, d, e>> \in Group1 \X Group2 \X Group3 \X Group4 \X Group5 }

ShortInputs == { <<"2","a","3","7">>, <<"2","A","3","7">>, <<"1","8","0","D">>,
                 <<"f","f","f","f">>, <<"0","0","0","0">> }

UuidInputs == FullInputs \cup ShortInputs

(***************************************************************************)
(* Bounds                                                                  *)
(***************************************************************************)
NumTasks == 2       \* tasks that call the client concurrently
NumCallers == 1     \* the tasks that are active in the specification SpecCallers

Tasks == 1..NumTasks

Callers == 1..NumCallers

(***************************************************************************)
(* The peripheral and the native adapter (central_manager_delegate and     *)
(* connected_peripheral_delegate): what the adapter answers                *)
(***************************************************************************)
\* the GATT tree of the peripheral, by native handle
PeripheralServices == <<"s1", "s2">>

PeripheralCharacteristics ==
  [s \in {"s1", "s2"} |-> IF s = "s1" THEN <<"c1", "c2">> ELSE <<>>]

PeripheralDescriptors == [c \in {"c1", "c2"} |-> IF c = "c1" THEN <<"d1">> ELSE <<>>]

\* the octets of each attribute's CBUUID: 16-bit for s1 and c1, 128-bit else
NativeUUIDData ==
  [n \in {"s1", "s2", "c1", "c2"} |->
     CASE n = "s1" -> <<24, 13>>
       [] n = "c1" -> <<42, 55>>
       [] n = "s2" -> <<161,178,195,212, 18,52, 86,120, 154,188, 222,240,18,52,86,119>>
       [] n = "c2" -> <<161,178,195,212, 18,52, 86,120, 154,188, 222,240,18,52,86,120>>]

\* x.UUID().UUIDString() of a native service or characteristic
UUIDString(n) == CBUUID_UUIDString(NativeUUIDData[n])

\* the handle of a native descriptor
DescriptorHandle == [d \in {"d1"} |-> 42]

\* peripherals the scan can report: identifier().UUIDString() and name()
ScanPeripherals == {"p1", "p2"}

PeripheralIdentifier ==
  [p \in ScanPeripherals |->
     CASE p = "p1" -> <<"A","1",":","B","2">>
       [] p = "p2" -> <<"C","3",":","D","4">>]

PeripheralName == [p \in ScanPeripherals |-> IF p = "p2" THEN None ELSE "HRM"]

\* advertisement payloads: without and with manufacturer data
NoKeys == [k \in {} |-> <<>>]

AdvertisementData ==
  { NoKeys, [k \in {"kCBAdvDataManufacturerData"} |-> <<76, 0, 2, 21>>] }

MaxScan == 1        \* peripherals one scan reports

\* what scanForPeripherals_ leaves: the peripherals, each reported once, and,
\* index by index, advertisement_data_list
ScanResults ==
  { scan \in UNION { [1..n -> ScanPeripherals \X AdvertisementData] : n \in 0..MaxScan } :
      \A i, j \in 1..Len(scan) : scan[i][1] = scan[j][1] => i = j }

(***************************************************************************)
(* BleakGATTServiceCollection and the CoreBluetooth wrappers               *)
(***************************************************************************)
NoEntries == [k \in {} |-> None]

\* BleakGATTServiceCollection()
EmptyCollection ==
  [services |-> NoEntries, characteristics |-> NoEntries, descriptors |-> NoEntries]

BleakGATTServiceCoreBluetooth(service) ==
  [obj |-> service, uuid |-> UUIDString(service)]

BleakGATTCharacteristicCoreBluetooth(characteristic) ==
  [obj |-> characteristic, uuid |-> UUIDString(characteristic)]

BleakGATTDescriptorCoreBluetooth(descriptor, characteristic_uuid) ==
  [obj |-> descriptor, handle |-> DescriptorHandle[descriptor],
   characteristic_uuid |-> characteristic_uuid]

add_service(coll, service) ==
  [coll EXCEPT !.services = (service.uuid :> service) @@ @]

add_characteristic(coll, characteristic) ==
  [coll EXCEPT !.characteristics = (characteristic.uuid :> characteristic) @@ @]

add_descriptor(coll, descriptor) ==
  [coll EXCEPT !.descriptors = (descriptor.handle :> descriptor) @@ @]

\* the absent result of a lookup: an entry whose obj is None
NoCharacteristic == [obj |-> None, uuid |-> <<>>]

NoDescriptor == [obj |-> None, handle |-> -1, characteristic_uuid |-> <<>>]

get_characteristic(coll, _uuid) ==
  IF _uuid \in DOMAIN coll.characteristics THEN coll.characteristics[_uuid]
  ELSE NoCharacteristic

get_descriptor(coll, handle) ==
  IF handle \in DOMAIN coll.descriptors THEN coll.descriptors[handle]
  ELSE NoDescriptor

(***************************************************************************)
(* client.py: scan_for_devices                                             *)
(***************************************************************************)
LowerHexDigits == <<"0","1","2","3","4","5","6","7","8","9","a","b","c","d","e","f">>

\* format(x, 'x'), padded with "0" to two digits
format_x2(x) == <<LowerHexDigits[(x \div 16) + 1], LowerHexDigits[(x % 16) + 1]>>

RECURSIVE join_x2(_)
\* ''.join(map(format_x2, data))
join_x2(data) == IF data = <<>> THEN <<>> ELSE format_x2(Head(data)) \o join_x2(Tail(data))

\* int.from_bytes(data[0:2], byteorder='little')
manufacturer_id_of(data) ==
  (IF Len(data) >= 1 THEN data[1] ELSE 0) + 256 * (IF Len(data) >= 2 THEN data[2] ELSE 0)

BLEDevice(addr, name, details, manufacturer_data) ==
  [address |-> addr, name |-> name, details |-> details,
   manufacturer_data |-> manufacturer_data]

\* the BLEDevice of one reported peripheral
device_of(peripheral, manufacturer_binary_data) ==
  BLEDevice(PeripheralIdentifier[peripheral],
            IF PeripheralName[peripheral] = None THEN "Unknown" ELSE PeripheralName[peripheral],
            peripheral,
            [id    |-> manufacturer_id_of(manufacturer_binary_data),
             value |-> join_x2(SubSeq(manufacturer_binary_data, 3, Len(manufacturer_binary_data)))])

RECURSIVE scan_from(_, _)
\* the loop of scan_for_devices from index i: the append is inside the
\* "if manufacturer_binary_data:" block
scan_from(scan, i) ==
  IF i > Len(scan) THEN <<>>
  ELSE LET advertisement_data == scan[i][2]
           manufacturer_binary_data ==
             IF "kCBAdvDataManufacturerData" \in DOMAIN advertisement_data
             THEN advertisement_data["kCBAdvDataManufacturerData"] ELSE <<>>
       IN  (IF manufacturer_binary_data # <<>>
            THEN <<device_of(scan[i][1], manufacturer_binary_data)>>
            ELSE <<>>) \o scan_from(scan, i + 1)

scan_for_devices(scan) == scan_from(scan, 1)

(***************************************************************************)
(* client.py: BleakClientCoreBluetooth                                     *)
(***************************************************************************)
\* self.address
address == <<"a","1",":","b","2">>

\* the locals of a coroutine that is not running
NoFrame ==
  [op |-> None, caller |-> None, uuid |-> <<>>, handle |-> -1, obj |-> None,
   args |-> <<>>, svcs |-> <<>>, si |-> 0, chs |-> <<>>, ci |-> 0]

NoCall == [op |-> None, uuid |-> <<>>, handle |-> -1, args |-> <<>>]

NoReturn == [op |-> None, status |-> None, uuid |-> <<>>, handle |-> -1]

\* the adapter has no subscription
NoSubscriptions == [c \in {} |-> None]

\* __init__
ClientInit ==
  /\ _device_info = None
  /\ _services = None
  /\ _services_resolved = FALSE
  /\ services = EmptyCollection
  /\ isConnected = FALSE
  /\ session_resolved = FALSE
  /\ pass_failed = FALSE
  /\ pc = [t \in Tasks |-> "idle"]
  /\ frame = [t \in Tasks |-> NoFrame]
  /\ invoked = NoCall
  /\ issued = <<>>
  /\ issued_args = <<>>
  /\ returned = NoReturn
  /\ called_back = <<>>
  /\ subscriptions = NoSubscriptions

\* the arguments callers pass: the short and the full form of c1's UUID, and
\* a 128-bit UUID the peripheral does not have
CallerUUIDs ==
  { <<"2","a","3","7">>,
    <<"0","0","0","0","2","a","3","7","-","0","0","0","0","-","1","0","0","0","-","8","0","0","0","-","0","0","8","0","5","f","9","b","3","4","f","b">>,
    <<"a","1","b","2","c","3","d","4","-","1","2","3","4","-","5","6","7","8","-","9","a","b","c","-","d","e","f","0","1","2","3","4","5","6","7","9">> }

CallerHandles == {42, 7}

\* the callbacks callers register
CallerCallbacks == {"callback1", "callback2"}

\* the payloads of the notifications the peripheral sends
Payloads == { <<7>>, <<8, 9>> }

\* the byte sequences callers write
CallerData == { <<1>>, <<2, 3>> }

\* get_appropriate_uuid on the callers' arguments, evaluated once
appropriate_uuid == [u \in CallerUUIDs |-> get_appropriate_uuid(u)]

\* the value of an un-awaited "self.get_appropriate_uuid(_uuid)": a coroutine
\* object, which equals no string
CoroutineObject == <<"<coroutine object BleakClientCoreBluetooth.get_appropriate_uuid>">>

\* the adapter calls a coroutine can be suspended on
DiscoveryCalls == {"discoverServices", "discoverCharacteristics_", "discoverDescriptors_"}

IoCalls == {"readCharacteristic_", "readDescriptor_", "writeCharacteristic_value_",
            "writeDescriptor_value_", "startNotify_cb_", "stopNotify_"}

AdapterCalls == DiscoveryCalls \cup IoCalls \cup {"scanForPeripherals_", "connect_", "disconnect"}

\* the operation whose caller sees the result or the exception
outer_op(f) == IF f.caller = None THEN f.op ELSE f.caller

\* a caller invokes an operation in this step, with the arguments "args"
\* after the UUID or the handle
InvokeWith(t, op, uuid, handle, args) ==
  invoked' = [op |-> op, uuid |-> uuid, handle |-> handle, args |-> args]

Invoke(t, op, uuid, handle) == InvokeWith(t, op, uuid, handle, <<>>)

\* the coroutine of task t issues an adapter call and suspends on it, with
\* locals f; args are the arguments of the call after the target
AwaitWith(t, call, target, args, f) ==
  /\ pc' = [pc EXCEPT ![t] = call]
  /\ frame' = [frame EXCEPT ![t] = f]
  /\ issued' = <<call, target>>
  /\ issued_args' = args
  /\ returned' = NoReturn
  /\ called_back' = <<>>

Await(t, call, target, f) == AwaitWith(t, call, target, <<>>, f)

\* the coroutine of task t ends: it returns, or raises the error "status"
\* carrying an identifier
Finish(t, op, status, uuid, handle) ==
  /\ pc' = [pc EXCEPT ![t] = "idle"]
  /\ frame' = [frame EXCEPT ![t] = NoFrame]
  /\ issued' = <<>>
  /\ issued_args' = <<>>
  /\ returned' = [op |-> op, status |-> status, uuid |-> uuid, handle |-> handle]
  /\ called_back' = <<>>

\* a slip in the cache test: a collection that holds anything is returned
GetServicesEnter_nonempty(t, caller) ==
  IF services # EmptyCollection
  THEN Finish(t, IF caller = None THEN "get_services" ELSE caller, "ok", <<>>, -1)
  ELSE Await(t, "discoverServices", "-",
             [NoFrame EXCEPT !.op = "get_services", !.caller = caller])

\* get_services, lines 110-114: from its entry to its first await
GetServicesEnter(t, caller) ==
  IF _services # None
  THEN Finish(t, IF caller = None THEN "get_services" ELSE caller, "ok", <<>>, -1)
  ELSE Await(t, "discoverServices", "-",
             [NoFrame EXCEPT !.op = "get_services", !.caller = caller])

\* a slip in the nesting of the loops: the next service is requested before
\* the characteristics of the one just added
GetServicesAdvance_services_first(t, f) ==
  IF f.si < Len(f.svcs)
  THEN /\ Await(t, "discoverCharacteristics_", f.svcs[f.si + 1],
                [f EXCEPT !.si = f.si + 1, !.chs = <<>>, !.ci = 0])
       /\ UNCHANGED <<_services_resolved, session_resolved>>
  ELSE IF f.ci < Len(f.chs)
  THEN /\ Await(t, "discoverDescriptors_", f.chs[f.ci + 1], [f EXCEPT !.ci = f.ci + 1])
       /\ UNCHANGED <<_services_resolved, session_resolved>>
  ELSE /\ _services_resolved' = TRUE
       /\ session_resolved' = TRUE
       /\ Finish(t, outer_op(f), "ok", <<>>, -1)

\* get_services, lines 116-136: the loops from the position in f to the next
\* await, or to the end
GetServicesAdvance(t, f) ==
  IF f.ci < Len(f.chs)
  THEN /\ Await(t, "discoverDescriptors_", f.chs[f.ci + 1], [f EXCEPT !.ci = f.ci + 1])
       /\ UNCHANGED <<_services_resolved, session_resolved>>
  ELSE IF f.si < Len(f.svcs)
  THEN /\ Await(t, "discoverCharacteristics_", f.svcs[f.si + 1],
                [f EXCEPT !.si = f.si + 1, !.chs = <<>>, !.ci = 0])
       /\ UNCHANGED <<_services_resolved, session_resolved>>
  ELSE /\ _services_resolved' = TRUE
       /\ session_resolved' = TRUE
       /\ Finish(t, outer_op(f), "ok", <<>>, -1)

\* connect, line 53: the scan is requested
connect(t) ==
  /\ pc[t] = "idle"
  /\ Invoke(t, "connect", <<>>, -1)
  /\ Await(t, "scanForPeripherals_", "-", [NoFrame EXCEPT !.op = "connect"])
  /\ UNCHANGED <<_device_info, _services, _services_resolved, services, isConnected,
                 session_resolved>>
  /\ UNCHANGED <<uuid_vars, server_vars>>
  /\ UNCHANGED <<pass_failed, subscriptions>>

\* a slip in connect: the adapter connect is left out, discovery begins when
\* the scan has ended
scanForPeripherals_Response_no_connect(t, scan) ==
  /\ pc[t] = "scanForPeripherals_"
  /\ LET devices == scan_for_devices(scan)
         sought_device == SelectSeq(devices, LAMBDA x : upper(x.address) = upper(address))
     IN  IF Len(sought_device) > 0
         THEN /\ _device_info' = sought_device[1].details
              /\ GetServicesEnter(t, "connect")
         ELSE /\ Finish(t, "connect", "DeviceNotFound", address, -1)
              /\ UNCHANGED _device_info
  /\ invoked' = NoCall
  /\ UNCHANGED <<_services, _services_resolved, services, isConnected, session_resolved>>
  /\ UNCHANGED <<uuid_vars, server_vars>>
  /\ UNCHANGED <<pass_failed, subscriptions>>

\* connect, lines 53-63, with scan_for_devices: the adapter ends the scan
\* with "scan", its peripherals and advertisement_data_list; up to the
\* adapter connect
scanForPeripherals_Response(t, scan) ==
  /\ pc[t] = "scanForPeripherals_"
  /\ LET devices == scan_for_devices(scan)
         sought_device == SelectSeq(devices, LAMBDA x : upper(x.address) = upper(address))
     IN  IF Len(sought_device) > 0
         THEN /\ _device_info' = sought_device[1].details
              /\ Await(t, "connect_", sought_device[1].details,
                       [NoFrame EXCEPT !.op = "connect"])
         ELSE /\ Finish(t, "connect", "DeviceNotFound", address, -1)
              /\ UNCHANGED _device_info
  /\ invoked' = NoCall
  /\ UNCHANGED <<_services, _services_resolved, services, isConnected, session_resolved>>
  /\ UNCHANGED <<uuid_vars, server_vars>>
  /\ UNCHANGED <<pass_failed, subscriptions>>

\* the adapter has connected; connect, line 66: get_services begins
connect_Response(t) ==
  /\ pc[t] = "connect_"
  /\ isConnected' = TRUE
  /\ session_resolved' = FALSE
  /\ GetServicesEnter(t, "connect")
  /\ invoked' = NoCall
  /\ UNCHANGED <<_device_info, _services, _services_resolved, services>>
  /\ UNCHANGED <<uuid_vars, server_vars>>
  /\ pass_failed' = FALSE
  /\ UNCHANGED subscriptions

\* disconnect, line 72
disconnect(t) ==
  /\ pc[t] = "idle"
  /\ Invoke(t, "disconnect", <<>>, -1)
  /\ Await(t, "disconnect", "-", [NoFrame EXCEPT !.op = "disconnect"])
  /\ UNCHANGED <<_device_info, _services, _services_resolved, services, isConnected,
                 session_resolved>>
  /\ UNCHANGED <<uuid_vars, server_vars>>
  /\ UNCHANGED <<pass_failed, subscriptions>>

\* a slip in disconnect: it empties the collection
disconnect_Response_discarding(t) ==
  /\ pc[t] = "disconnect"
  /\ isConnected' = FALSE
  /\ session_resolved' = FALSE
  /\ services' = EmptyCollection
  /\ Finish(t, "disconnect", "ok", <<>>, -1)
  /\ invoked' = NoCall
  /\ UNCHANGED <<_device_info, _services, _services_resolved>>
  /\ UNCHANGED <<uuid_vars, server_vars>>
  /\ pass_failed' = FALSE
  /\ subscriptions' = NoSubscriptions

\* the adapter has disconnected; disconnect, line 73
disconnect_Response(t) ==
  /\ pc[t] = "disconnect"
  /\ isConnected' = FALSE
  /\ session_resolved' = FALSE
  /\ Finish(t, "disconnect", "ok", <<>>, -1)
  /\ invoked' = NoCall
  /\ UNCHANGED <<_device_info, _services, _services_resolved, services>>
  /\ UNCHANGED <<uuid_vars, server_vars>>
  /\ pass_failed' = FALSE
  /\ subscriptions' = NoSubscriptions

\* get_services called by a task
get_services(t) ==
  /\ pc[t] = "idle"
  /\ Invoke(t, "get_services", <<>>, -1)
  /\ GetServicesEnter(t, None)
  /\ UNCHANGED <<_device_info, _services, _services_resolved, services, isConnected,
                 session_resolved>>
  /\ UNCHANGED <<uuid_vars, server_vars>>
  /\ UNCHANGED <<pass_failed, subscriptions>>

\* get_services, lines 114-116: the service list arrives
discoverServices_Response(t) ==
  /\ pc[t] = "discoverServices"
  /\ GetServicesAdvance(t, [frame[t] EXCEPT !.svcs = PeripheralServices,
                                          !.si = 0, !.chs = <<>>, !.ci = 0])
  /\ invoked' = NoCall
  /\ UNCHANGED <<_device_info, _services, services, isConnected>>
  /\ UNCHANGED <<uuid_vars, server_vars>>
  /\ UNCHANGED <<pass_failed, subscriptions>>

\* get_services, lines 119-123: a characteristic list arrives, the service
\* is added
discoverCharacteristics_Response(t) ==
  /\ pc[t] = "discoverCharacteristics_"
  /\ LET f == frame[t]
         service == f.svcs[f.si]
         characteristics == PeripheralCharacteristics[service]
     IN  /\ services' = add_service(services, BleakGATTServiceCoreBluetooth(service))
         /\ GetServicesAdvance(t, [f EXCEPT !.chs = characteristics, !.ci = 0])
  /\ invoked' = NoCall
  /\ UNCHANGED <<_device_info, _services, isConnected>>
  /\ UNCHANGED <<uuid_vars, server_vars>>
  /\ UNCHANGED <<pass_failed, subscriptions>>

RECURSIVE add_descriptors(_, _, _)
\* get_services, lines 129-134
add_descriptors(coll, descriptors, characteristic) ==
  IF descriptors = <<>> THEN coll
  ELSE add_descriptors(
         add_descriptor(coll, BleakGATTDescriptorCoreBluetooth(Head(descriptors),
                                                               UUIDString(characteristic))),
         Tail(descriptors), characteristic)

\* get_services, lines 126-134: a descriptor list arrives, the
\* characteristic and its descriptors are added
discoverDescriptors_Response(t) ==
  /\ pc[t] = "discoverDescriptors_"
  /\ LET f == frame[t]
         characteristic == f.chs[f.ci]
         descriptors == PeripheralDescriptors[characteristic]
     IN  /\ services' = add_descriptors(
                          add_characteristic(services,
                             BleakGATTCharacteristicCoreBluetooth(characteristic)),
                          descriptors, characteristic)
         /\ GetServicesAdvance(t, f)
  /\ invoked' = NoCall
  /\ UNCHANGED <<_device_info, _services, isConnected>>
  /\ UNCHANGED <<uuid_vars, server_vars>>
  /\ UNCHANGED <<pass_failed, subscriptions>>

\* the body shared by the operations on a characteristic: the lookup under
\* the key, then the error or the adapter call on characteristic.obj with the
\* further arguments args
characteristic_op(t, op, call, key, args) ==
  /\ LET characteristic == get_characteristic(services, key)
     IN  IF characteristic.obj = None
         THEN Finish(t, op, "NotFound", key, -1)
         ELSE AwaitWith(t, call, characteristic.obj, args,
                    [NoFrame EXCEPT !.op = op, !.uuid = key, !.obj = characteristic.obj,
                                    !.args = args])
  /\ UNCHANGED <<_device_info, _services, _services_resolved, services, isConnected,
                 session_resolved>>
  /\ UNCHANGED <<uuid_vars, server_vars>>
  /\ UNCHANGED <<pass_failed, subscriptions>>

\* a slip in the lookup: the adapter call is made without the test for a
\* missing descriptor
descriptor_op_unchecked(t, op, call, handle, args) ==
  /\ LET descriptor == get_descriptor(services, handle)
     IN  AwaitWith(t, call, descriptor.obj, args,
               [NoFrame EXCEPT !.op = op, !.handle = handle, !.obj = descriptor.obj,
                               !.args = args])
  /\ UNCHANGED <<_device_info, _services, _services_resolved, services, isConnected,
                 session_resolved>>
  /\ UNCHANGED <<uuid_vars, server_vars>>
  /\ UNCHANGED <<pass_failed, subscriptions>>

\* the body shared by the operations on a descriptor: the lookup by handle,
\* then the error or the adapter call on descriptor.obj with the further
\* arguments args
descriptor_op(t, op, call, handle, args) ==
  /\ LET descriptor == get_descriptor(services, handle)
     IN  IF descriptor.obj = None
         THEN Finish(t, op, "NotFound", <<>>, handle)
         ELSE AwaitWith(t, call, descriptor.obj, args,
                    [NoFrame EXCEPT !.op = op, !.handle = handle, !.obj = descriptor.obj,
                                    !.args = args])
  /\ UNCHANGED <<_device_info, _services, _services_resolved, services, isConnected,
                 session_resolved>>
  /\ UNCHANGED <<uuid_vars, server_vars>>
  /\ UNCHANGED <<pass_failed, subscriptions>>

read_gatt_char(t, _uuid) ==
  /\ pc[t] = "idle"
  /\ Invoke(t, "read_gatt_char", _uuid, -1)
  /\ characteristic_op(t, "read_gatt_char", "readCharacteristic_",
                       appropriate_uuid[_uuid], <<>>)

read_gatt_descriptor(t, handle) ==
  /\ pc[t] = "idle"
  /\ Invoke(t, "read_gatt_descriptor", <<>>, handle)
  /\ descriptor_op(t, "read_gatt_descriptor", "readDescriptor_", handle, <<>>)

\* NSData.alloc().initWithBytes_length_(data, length): the first "length"
\* bytes of data
NSData(data, length) == SubSeq(data, 1, length)

\* lines 187-193: the adapter write is called with characteristic.obj and
\* value; "response" is not used
write_gatt_char(t, _uuid, data, response) ==
  /\ pc[t] = "idle"
  /\ InvokeWith(t, "write_gatt_char", _uuid, -1, <<data, response>>)
  /\ LET value == NSData(data, Len(data))
     IN  characteristic_op(t, "write_gatt_char", "writeCharacteristic_value_",
                           appropriate_uuid[_uuid], <<value>>)

write_gatt_descriptor(t, handle, data) ==
  /\ pc[t] = "idle"
  /\ InvokeWith(t, "write_gatt_descriptor", <<>>, handle, <<data>>)
  /\ LET value == NSData(data, Len(data))
     IN  descriptor_op(t, "write_gatt_descriptor", "writeDescriptor_value_", handle,
                       <<value>>)

\* a slip that would subscribe without handing over the callback
start_notify_no_callback(t, _uuid, callback) ==
  /\ pc[t] = "idle"
  /\ InvokeWith(t, "start_notify", _uuid, -1, <<callback>>)
  /\ characteristic_op(t, "start_notify", "startNotify_cb_",
                       appropriate_uuid[_uuid], <<None>>)

\* lines 227-232: the adapter subscribe is called with characteristic.obj and
\* the callback
start_notify(t, _uuid, callback) ==
  /\ pc[t] = "idle"
  /\ InvokeWith(t, "start_notify", _uuid, -1, <<callback>>)
  /\ characteristic_op(t, "start_notify", "startNotify_cb_",
                       appropriate_uuid[_uuid], <<callback>>)

\* line 245 does not await get_appropriate_uuid: the key of the lookup is
\* the coroutine object
stop_notify(t, _uuid) ==
  /\ pc[t] = "idle"
  /\ Invoke(t, "stop_notify", _uuid, -1)
  /\ characteristic_op(t, "stop_notify", "stopNotify_", CoroutineObject, <<>>)

\* the adapter's subscriptions after it has completed "call" for the
\* coroutine with locals f: startNotify_cb_ registers the callback for the
\* characteristic, stopNotify_ removes it
subscriptions_after(call, f) ==
  IF call = "startNotify_cb_"
  THEN [c \in DOMAIN subscriptions \cup {f.obj} |->
          IF c = f.obj THEN [callback |-> f.args[1], uuid |-> f.uuid]
          ELSE subscriptions[c]]
  ELSE IF call = "stopNotify_"
  THEN [c \in DOMAIN subscriptions \ {f.obj} |-> subscriptions[c]]
  ELSE subscriptions

\* the adapter completes a read, a write, a subscribe or an unsubscribe
Io_Response(t) ==
  /\ pc[t] \in IoCalls
  /\ Finish(t, frame[t].op, "ok", frame[t].uuid, frame[t].handle)
  /\ invoked' = NoCall
  /\ UNCHANGED <<_device_info, _services, _services_resolved, services, isConnected,
                 session_resolved>>
  /\ UNCHANGED <<uuid_vars, server_vars>>
  /\ UNCHANGED pass_failed
  /\ subscriptions' = subscriptions_after(pc[t], frame[t])

\* a slip that would catch the error of a discovery call, mark the services
\* resolved and return the collection
Adapter_Error_resolved(t) ==
  /\ pc[t] \in AdapterCalls
  /\ IF pc[t] \in DiscoveryCalls
     THEN /\ Finish(t, outer_op(frame[t]), "ok", <<>>, -1)
          /\ _services_resolved' = TRUE
          /\ session_resolved' = TRUE
     ELSE /\ Finish(t, outer_op(frame[t]), "AdapterFailure", frame[t].uuid, frame[t].handle)
          /\ UNCHANGED <<_services_resolved, session_resolved>>
  /\ invoked' = NoCall
  /\ UNCHANGED <<_device_info, _services, services, isConnected>>
  /\ UNCHANGED <<uuid_vars, server_vars>>
  /\ UNCHANGED <<pass_failed, subscriptions>>

\* the adapter reports an error for the pending call: the exception
\* propagates to the caller of the operation
Adapter_Error(t) ==
  /\ pc[t] \in AdapterCalls
  /\ Finish(t, outer_op(frame[t]), "AdapterFailure", frame[t].uuid, frame[t].handle)
  /\ invoked' = NoCall
  /\ UNCHANGED <<_device_info, _services, _services_resolved, services, isConnected,
                 session_resolved>>
  /\ UNCHANGED <<uuid_vars, server_vars>>
  /\ pass_failed' = (pass_failed \/ pc[t] \in DiscoveryCalls)
  /\ UNCHANGED subscriptions

\* the native characteristics of the peripheral
AllCharacteristics ==
  UNION { { PeripheralCharacteristics[s][i] : i \in 1..Len(PeripheralCharacteristics[s]) } :
          s \in DOMAIN PeripheralCharacteristics }

\* the peripheral notifies a value of a subscribed characteristic: the
\* adapter's delegate invokes the callback registered for it, with the UUID
\* string of the characteristic and the payload
Notification(c, payload) ==
  /\ isConnected
  /\ c \in DOMAIN subscriptions
  /\ called_back' = <<subscriptions[c].callback, UUIDString(c), payload>>
  /\ invoked' = NoCall
  /\ issued' = <<>>
  /\ issued_args' = <<>>
  /\ returned' = NoReturn
  /\ UNCHANGED <<_device_info, _services, _services_resolved, services, isConnected,
                 session_resolved, pass_failed, pc, frame, subscriptions>>
  /\ UNCHANGED <<uuid_vars, server_vars>>

(***************************************************************************)
(* server.py: BaseBleakServer used as "async with server:"                 *)
(***************************************************************************)
MaxUses == 3        \* times the caller enters the server's block
MaxBodySteps == 2   \* steps of the caller's body

\* __init__ of the server, before any "async with"
ServerInit ==
  /\ srv_pc = "outside"
  /\ srv_trace = <<>>
  /\ srv_exc = None
  /\ srv_running = FALSE
  /\ srv_steps = 0
  /\ srv_calls = [start |-> 0, stop |-> 0]
  /\ srv_uses = 0

\* __aenter__, lines 26-28: the methods it awaits before it returns self
__aenter__ == <<"start">>

\* a slip that would stop the server only after a body that did not raise
aexit_unless_raised(exc_type) == IF exc_type = None THEN <<"stop">> ELSE <<>>

\* __aexit__, lines 30-31: the methods it awaits, whatever exc_type is; it
\* returns None, so the body's exception is not suppressed
__aexit__(exc_type) == <<"stop">>

RECURSIVE count_calls(_, _)
\* the calls so far, with those of a sequence of awaited methods added
count_calls(calls, methods) ==
  IF methods = <<>> THEN calls
  ELSE count_calls([calls EXCEPT ![Head(methods)] = @ + 1], Tail(methods))

\* "async with server:" is reached: __aenter__ runs up to its await of start()
server_enter ==
  /\ srv_pc \in {"outside", "left"} /\ srv_uses < MaxUses
  /\ srv_uses' = srv_uses + 1
  /\ srv_trace' = __aenter__
  /\ srv_calls' = count_calls(srv_calls, __aenter__)
  /\ srv_pc' = "aenter"
  /\ srv_exc' = None
  /\ srv_steps' = 0
  /\ UNCHANGED srv_running
  /\ UNCHANGED <<uuid_vars, client_vars>>

\* start() returns, __aenter__ returns self, the body begins
start_returns ==
  /\ srv_pc = "aenter"
  /\ srv_running' = TRUE
  /\ srv_pc' = "body"
  /\ UNCHANGED <<srv_trace, srv_exc, srv_steps, srv_calls, srv_uses>>
  /\ UNCHANGED <<uuid_vars, client_vars>>

\* start() raises: the exception leaves __aenter__ and the statement; neither
\* the body nor __aexit__ runs
start_raises ==
  /\ srv_pc = "aenter"
  /\ srv_exc' = "start"
  /\ srv_pc' = "left"
  /\ UNCHANGED <<srv_trace, srv_running, srv_steps, srv_calls, srv_uses>>
  /\ UNCHANGED <<uuid_vars, client_vars>>

\* one step of the caller's body
body_step ==
  /\ srv_pc = "body" /\ srv_steps < MaxBodySteps
  /\ srv_steps' = srv_steps + 1
  /\ srv_trace' = Append(srv_trace, "body")
  /\ UNCHANGED <<srv_pc, srv_exc, srv_running, srv_calls, srv_uses>>
  /\ UNCHANGED <<uuid_vars, client_vars>>

\* the body ends, normally (exc_type = None) or raising: __aexit__ is called
\* with exc_type and runs up to its await
body_ends(exc_type) ==
  /\ srv_pc = "body"
  /\ srv_exc' = exc_type
  /\ srv_trace' = Append(srv_trace, "end") \o __aexit__(exc_type)
  /\ srv_calls' = count_calls(srv_calls, __aexit__(exc_type))
  /\ srv_pc' = IF __aexit__(exc_type) = <<>> THEN "left" ELSE "aexit"
  /\ UNCHANGED <<srv_running, srv_steps, srv_uses>>
  /\ UNCHANGED <<uuid_vars, client_vars>>

\* whether "async with" takes the value __aexit__ returned as a request to
\* suppress the body's exception
Truthy(v) == v \notin {None, "False"}

\* a slip that would return what stop() returned
aexit_result_of_stop(stop_result) == IF stop_result THEN "True" ELSE "False"

\* __aexit__, lines 30-31: the value it returns; the result of stop() is
\* dropped and the coroutine falls off its end
aexit_result(stop_result) == None

\* stop() returns its boolean, __aexit__ returns: the statement is left, with
\* the body's exception if it raised one and __aexit__ did not suppress it
stop_returns ==
  /\ srv_pc = "aexit"
  /\ srv_running' = FALSE
  /\ srv_pc' = "left"
  /\ \E stop_result \in BOOLEAN :
       srv_exc' = IF Truthy(aexit_result(stop_result)) THEN None ELSE srv_exc
  /\ UNCHANGED <<srv_trace, srv_steps, srv_calls, srv_uses>>
  /\ UNCHANGED <<uuid_vars, client_vars>>

\* stop() raises: its exception leaves __aexit__ and the statement
stop_raises ==
  /\ srv_pc = "aexit"
  /\ srv_exc' = "stop"
  /\ srv_pc' = "left"
  /\ UNCHANGED <<srv_trace, srv_running, srv_steps, srv_calls, srv_uses>>
  /\ UNCHANGED <<uuid_vars, client_vars>>

ServerNext ==
  \/ server_enter
  \/ start_returns
  \/ start_raises
  \/ body_step
  \/ \E exc_type \in {None, "body"} : body_ends(exc_type)
  \/ stop_returns
  \/ stop_raises

UuidParked ==
  /\ uuid_in = <<>> /\ uuid_arg = <<>> /\ uuid_ret = None /\ uuid_first = None
  /\ uuid_pc = "parked"

\* a step of the client with the tasks T calling it
ClientStep(T) ==
  \/ \E c \in AllCharacteristics, payload \in Payloads : Notification(c, payload)
  \/ \E t \in T :
      \/ connect(t)
      \/ \E scan \in ScanResults : scanForPeripherals_Response(t, scan)
      \/ connect_Response(t)
      \/ disconnect(t)
      \/ disconnect_Response(t)
      \/ get_services(t)
      \/ discoverServices_Response(t)
      \/ discoverCharacteristics_Response(t)
      \/ discoverDescriptors_Response(t)
      \/ \E u \in CallerUUIDs : read_gatt_char(t, u)
      \/ \E h \in CallerHandles : read_gatt_descriptor(t, h)
      \/ \E u \in CallerUUIDs, data \in CallerData, response \in BOOLEAN :
           write_gatt_char(t, u, data, response)
      \/ \E h \in CallerHandles, data \in CallerData : write_gatt_descriptor(t, h, data)
      \/ \E u \in CallerUUIDs, callback \in CallerCallbacks : start_notify(t, u, callback)
      \/ \E u \in CallerUUIDs : stop_notify(t, u)
      \/ Io_Response(t)
      \/ Adapter_Error(t)

Next == ClientStep(Tasks)

CallersNext == ClientStep(Callers)

Init == ClientInit /\ UuidParked /\ ServerInit

Spec == Init /\ [][Next]_vars

SpecCallers == Init /\ [][CallersNext]_vars

SpecServer == Init /\ [][ServerNext]_vars

(***************************************************************************)
(* The normalizer harness                                                  *)
(***************************************************************************)
UuidInit ==
  /\ uuid_in \in UuidInputs
  /\ uuid_arg = uuid_in
  /\ uuid_ret = None
  /\ uuid_first = None
  /\ uuid_pc = "input"

\* normalize(u)
Normalize ==
  /\ uuid_pc = "input"
  /\ uuid_ret' = get_appropriate_uuid(uuid_arg)
  /\ uuid_first' = uuid_ret'
  /\ uuid_pc' = "normalized"
  /\ UNCHANGED <<uuid_in, uuid_arg>>
  /\ UNCHANGED <<client_vars, server_vars>>

\* to_full_form(normalize(u)), when normalize(u) is a short form
Expand ==
  /\ uuid_pc = "normalized"
  /\ Len(uuid_ret) = 4
  /\ uuid_arg' = to_full_form(uuid_ret)
  /\ uuid_pc' = "expanded"
  /\ UNCHANGED <<uuid_in, uuid_ret, uuid_first>>
  /\ UNCHANGED <<client_vars, server_vars>>

\* normalize(to_full_form(normalize(u)))
Renormalize ==
  /\ uuid_pc = "expanded"
  /\ uuid_ret' = get_appropriate_uuid(uuid_arg)
  /\ uuid_pc' = "renormalized"
  /\ UNCHANGED <<uuid_in, uuid_arg, uuid_first>>
  /\ UNCHANGED <<client_vars, server_vars>>

UuidNext == Normalize \/ Expand \/ Renormalize

UuidHarnessInit == UuidInit /\ ClientInit /\ ServerInit

SpecUuid == UuidHarnessInit /\ [][UuidNext]_vars

(***************************************************************************)
(* The Base-UUID subrange, as the data model defines it                    *)
(***************************************************************************)
BaseSuffix == <<"-","0","0","0","0","-","1","0","0","0","-","8","0","0","0","-","0","0","8","0","5","F","9","B","3","4","F","B">>

InBaseRange(u) ==
  /\ Len(u) = 36
  /\ SubSeq(u, 1, 4) = <<"0","0","0","0">>
  /\ upper(SubSeq(u, 9, 36)) = BaseSuffix

\* C6: every full-form UUID outside the Base-UUID subrange is returned
\* upper-cased in full form, never as a 4-digit short form.
C6_OutsideBaseKeepsFullForm ==
  (uuid_pc = "normalized" /\ Len(uuid_in) = 36 /\ ~InBaseRange(uuid_in))
     => uuid_ret = upper(uuid_in)

\* C7: a UUID in the Base-UUID subrange, in any letter case, normalizes to
\* its 4 digits upper-cased; expanding that short form and normalizing again
\* gives the same result; a 4-character input is returned upper-cased.
C7_BaseRoundTrip ==
  /\ (uuid_pc \in {"normalized", "expanded", "renormalized"} /\ InBaseRange(uuid_in))
        => uuid_first = upper(SubSeq(uuid_in, 5, 8))
  /\ (uuid_pc = "expanded" /\ (InBaseRange(uuid_in) \/ Len(uuid_in) = 4))
        => (InBaseRange(uuid_arg) /\ SubSeq(uuid_arg, 5, 8) = uuid_first)
  /\ (uuid_pc = "renormalized" /\ (InBaseRange(uuid_in) \/ Len(uuid_in) = 4))
        => uuid_ret = uuid_first
  /\ (uuid_pc \in {"normalized", "expanded", "renormalized"} /\ Len(uuid_in) = 4)
        => uuid_first = upper(uuid_in)

\* a lower-case Base-range UUID has been normalized, expanded and
\* normalized again
C7_Witness ==
  /\ uuid_pc = "renormalized"
  /\ uuid_in = <<"0","0","0","0","2","a","3","7","-","0","0","0","0","-","1","0","0","0","-","8","0","0","0","-","0","0","8","0","5","f","9","b","3","4","f","b">>
  /\ uuid_ret = <<"2","A","3","7">>

(***************************************************************************)
(* Properties of the client                                                *)
(***************************************************************************)
\* no connect is between its call and the adapter's answer to connect_
NotConnecting == \A t \in Tasks : pc[t] \notin {"scanForPeripherals_", "connect_"}

\* the connection state Disconnected of the state machine
Disconnected == ~isConnected /\ NotConnecting

CharacteristicOps == {"read_gatt_char", "write_gatt_char", "start_notify"}

DescriptorOps == {"read_gatt_descriptor", "write_gatt_descriptor"}

\* the adapter call each operation dispatches
AdapterCallOf ==
  [op \in CharacteristicOps \cup DescriptorOps \cup {"stop_notify"} |->
     CASE op = "read_gatt_char" -> "readCharacteristic_"
       [] op = "write_gatt_char" -> "writeCharacteristic_value_"
       [] op = "start_notify" -> "startNotify_cb_"
       [] op = "stop_notify" -> "stopNotify_"
       [] op = "read_gatt_descriptor" -> "readDescriptor_"
       [] op = "write_gatt_descriptor" -> "writeDescriptor_value_"]

\* the short form the data model gives a 4-digit or Base-range UUID string;
\* <<>> for a string that has none
ShortFormOf(u) ==
  IF Len(u) = 4 THEN upper(u)
  ELSE IF InBaseRange(u) THEN upper(SubSeq(u, 5, 8))
  ELSE <<>>

\* C1: on one connected session, once a discovery pass has completed, a
\* get_services() call returns the collection at once, and no step issues a
\* discovery request or adds to the collection.
C1_DiscoveryOnce ==
  [][(isConnected /\ isConnected' /\ session_resolved)
       => /\ (issued' = <<>> \/ issued'[1] \notin DiscoveryCalls)
          /\ services' = services
          /\ (invoked'.op = "get_services"
                => returned' = [NoReturn EXCEPT !.op = "get_services", !.status = "ok"])]_vars

\* C2: while the client is Disconnected, every operation other than connect
\* fails at once with a "not connected" error and issues no adapter call.
C2_NotConnected ==
  [][(Disconnected /\ invoked'.op \in CharacteristicOps \cup DescriptorOps
                                         \cup {"get_services", "stop_notify"})
       => (returned'.op = invoked'.op /\ returned'.status = "NotConnected"
           /\ issued' = <<>>)]_vars

\* C3: at no point are two discovery passes active on the Service Collection.
C3_SingleDiscoveryPass ==
  Cardinality({t \in Tasks : pc[t] \in DiscoveryCalls}) <= 1

\* C4: read_gatt_char, write_gatt_char and start_notify with a UUID whose
\* normalized form is not in the collection, and read_gatt_descriptor and
\* write_gatt_descriptor with a handle that is not in it, fail with a
\* not-found error carrying that UUID or handle and issue no adapter call.
C4_NotFound ==
  [][/\ (invoked'.op \in CharacteristicOps
           /\ appropriate_uuid[invoked'.uuid] \notin DOMAIN services.characteristics)
        => /\ returned' = [op |-> invoked'.op, status |-> "NotFound",
                           uuid |-> appropriate_uuid[invoked'.uuid], handle |-> -1]
           /\ issued' = <<>>
     /\ (invoked'.op \in DescriptorOps
           /\ invoked'.handle \notin DOMAIN services.descriptors)
        => /\ returned' = [op |-> invoked'.op, status |-> "NotFound",
                           uuid |-> <<>>, handle |-> invoked'.handle]
           /\ issued' = <<>>]_vars

\* a read of an absent UUID and a write to an absent handle are refused on a
\* collection that holds other attributes
C4_Witness ==
  /\ DOMAIN services.characteristics # {} /\ DOMAIN services.descriptors # {}
  /\ invoked.op = "write_gatt_descriptor" /\ invoked.handle = 7
  /\ returned.status = "NotFound" /\ returned.handle = 7
  /\ issued = <<>>

\* C5: stop_notify normalizes its UUID: with the normalized UUID in the
\* collection it issues the adapter unsubscribe for that characteristic and
\* raises nothing; it fails with "not found" only when the normalized UUID is
\* absent.
C5_StopNotify ==
  [][invoked'.op = "stop_notify"
       => LET key == get_appropriate_uuid(invoked'.uuid)
          IN  IF key \in DOMAIN services.characteristics
              THEN /\ issued' = <<"stopNotify_", services.characteristics[key].obj>>
                   /\ returned' = NoReturn
              ELSE /\ issued' = <<>>
                   /\ returned'.status = "NotFound"]_vars

\* C8: for a characteristic of the collection whose UUID is in the Base-UUID
\* subrange, read_gatt_char, write_gatt_char and start_notify dispatch the
\* adapter call on that characteristic's native handle, whether the caller
\* passes the short or the full form, in any letter case.
C8_ShortAndFullForm ==
  [][(invoked'.op \in CharacteristicOps
        /\ ShortFormOf(invoked'.uuid) \in DOMAIN services.characteristics)
       => /\ issued' = <<AdapterCallOf[invoked'.op],
                         services.characteristics[ShortFormOf(invoked'.uuid)].obj>>
          /\ returned' = NoReturn]_vars

\* start_notify with the lower-case full form reaches the characteristic the
\* collection holds under "2A37"
C8_Witness ==
  /\ invoked.op = "start_notify" /\ Len(invoked.uuid) = 36 /\ InBaseRange(invoked.uuid)
  /\ issued = <<"startNotify_cb_", "c1">>
  /\ \E t \in Tasks : pc[t] = "startNotify_cb_" /\ frame[t].uuid = <<"2","A","3","7">>

\* the reported peripherals whose identifier equals the target address,
\* letter case ignored
Matching(scan) ==
  {i \in 1..Len(scan) : upper(PeripheralIdentifier[scan[i][1]]) = upper(address)}

\* C10: connect() fails with "device not found" exactly when no reported
\* peripheral matches the target address; otherwise it calls the adapter
\* connect with the first matching peripheral, whatever it advertises; on the
\* not-found path it issues no adapter call.
C10_DeviceNotFound ==
  [][\A t \in Tasks : \A scan \in ScanResults :
       scanForPeripherals_Response(t, scan)
         => IF Matching(scan) = {}
            THEN /\ returned' = [NoReturn EXCEPT !.op = "connect",
                                                 !.status = "DeviceNotFound",
                                                 !.uuid = address]
                 /\ issued' = <<>>
            ELSE /\ issued' = <<"connect_",
                                scan[CHOOSE i \in Matching(scan) :
                                       \A j \in Matching(scan) : i <= j][1]>>
                 /\ returned' = NoReturn]_vars

\* C11: when the adapter reports an error for a discovery request, the pass
\* ends at that step: the step issues no adapter call and adds nothing to the
\* collection, the coroutine is over, the error reaches the caller of
\* get_services() or connect(), and the step does not mark discovery
\* resolved.
C11_DiscoveryAborts ==
  [][\A t \in Tasks :
       (pc[t] \in DiscoveryCalls /\ Adapter_Error(t))
         => /\ issued' = <<>>
            /\ services' = services
            /\ pc'[t] = "idle" /\ frame'[t] = NoFrame
            /\ returned' = [NoReturn EXCEPT
                              !.op = IF frame[t].caller = "connect" THEN "connect"
                                     ELSE "get_services",
                              !.status = "AdapterFailure"]
            /\ _services_resolved' = _services_resolved
            /\ session_resolved' = session_resolved]_vars

\* get_services() has failed after the first service was added and before
\* any characteristic was: the collection is left as it was and nothing is
\* marked resolved
C11_Witness ==
  /\ returned.op = "get_services" /\ returned.status = "AdapterFailure"
  /\ DOMAIN services.services # {} /\ DOMAIN services.characteristics = {}
  /\ ~_services_resolved /\ ~session_resolved
  /\ issued = <<>>
  /\ \A t \in Tasks : pc[t] = "idle"

\* C12: on a connected session in which a discovery pass has failed, a
\* get_services() call issues the discovery request to the adapter again and
\* does not return the collection the failed pass left.
C12_RetryAfterFailure ==
  [][(isConnected /\ pass_failed /\ invoked'.op = "get_services")
       => /\ issued' = <<"discoverServices", "-">>
          /\ returned' = NoReturn]_vars

\* after a pass that failed with the first service added, and with no pass
\* completed, get_services() has issued discoverServices again
C12_Witness ==
  /\ isConnected /\ pass_failed /\ ~session_resolved
  /\ DOMAIN services.services # {} /\ DOMAIN services.characteristics = {}
  /\ invoked.op = "get_services"
  /\ issued = <<"discoverServices", "-">>
  /\ Cardinality({t \in Tasks : pc[t] # "idle"}) = 1

\* C13: the collection built in a connection session is discarded when
\* disconnect() completes, so that the next session starts from an empty
\* collection and nothing is added to the entries of the previous one.
C13_DiscardedOnDisconnect ==
  [][\A t \in Tasks :
       (isConnected /\ session_resolved /\ disconnect_Response(t))
         => services' = EmptyCollection]_vars

\* C14: write_gatt_char(uuid, data, response) on a characteristic of the
\* collection issues the adapter write on that characteristic with the
\* caller's data and the caller's ack mode, and is not complete in that step:
\* it waits for the adapter.
C14_WriteCarriesDataAndAckMode ==
  [][(invoked'.op = "write_gatt_char"
        /\ appropriate_uuid[invoked'.uuid] \in DOMAIN services.characteristics)
       => /\ issued' = <<"writeCharacteristic_value_",
                         services.characteristics[appropriate_uuid[invoked'.uuid]].obj>>
          /\ issued_args' = <<invoked'.args[1], invoked'.args[2]>>
          /\ returned' = NoReturn]_vars

\* C15: start_notify on a characteristic of the collection hands the
\* caller's callback and the characteristic's native handle to the adapter;
\* once it has succeeded the callback is registered for that characteristic
\* under the normalized UUID; and every notification of a subscribed
\* characteristic invokes the registered callback once, in the step it
\* arrives in, with the normalized UUID and the payload; no other step invokes
\* a callback.
C15_NotificationsReachCallback ==
  [][/\ (invoked'.op = "start_notify"
          /\ appropriate_uuid[invoked'.uuid] \in DOMAIN services.characteristics)
        => /\ issued' = <<"startNotify_cb_",
                          services.characteristics[appropriate_uuid[invoked'.uuid]].obj>>
           /\ issued_args' = <<invoked'.args[1]>>
     /\ \A t \in Tasks :
          (pc[t] = "startNotify_cb_" /\ Io_Response(t))
            => /\ returned' = [op |-> "start_notify", status |-> "ok",
                               uuid |-> frame[t].uuid, handle |-> -1]
               /\ frame[t].obj \in DOMAIN subscriptions'
               /\ subscriptions'[frame[t].obj] =
                    [callback |-> frame[t].args[1], uuid |-> frame[t].uuid]
     /\ \A c \in AllCharacteristics, payload \in Payloads :
          Notification(c, payload)
            => called_back' = <<subscriptions[c].callback, subscriptions[c].uuid, payload>>
     /\ called_back' # <<>>
          => \E c \in AllCharacteristics, payload \in Payloads : Notification(c, payload)]_vars

\* a notification of characteristic 2A37 has reached the second callback,
\* registered for it under the short form
C15_Witness ==
  /\ "c1" \in DOMAIN subscriptions
  /\ subscriptions["c1"] = [callback |-> "callback2", uuid |-> <<"2","A","3","7">>]
  /\ called_back = <<"callback2", <<"2","A","3","7">>, <<8, 9>>>>

\* the members of a sequence, and those that stand before x in it
Elements(seq) == {seq[i] : i \in DOMAIN seq}

Earlier(seq, x) == {seq[i] : i \in {j \in DOMAIN seq : \E k \in DOMAIN seq : j < k /\ seq[k] = x}}

\* the parents in the peripheral's GATT tree
ServiceOf ==
  [c \in AllCharacteristics |->
     CHOOSE s \in Elements(PeripheralServices) : c \in Elements(PeripheralCharacteristics[s])]

CharacteristicOf ==
  [d \in DOMAIN DescriptorHandle |->
     CHOOSE c \in AllCharacteristics : d \in Elements(PeripheralDescriptors[c])]

\* the UUID strings of the native services and characteristics, as a table
uuid_string == [n \in DOMAIN NativeUUIDData |-> UUIDString(n)]

\* the collection coll holds the entry of a native service, characteristic or
\* descriptor; a descriptor's entry is tagged with its characteristic's UUID
HasService(coll, s) ==
  /\ uuid_string[s] \in DOMAIN coll.services
  /\ coll.services[uuid_string[s]] = [obj |-> s, uuid |-> uuid_string[s]]

HasCharacteristic(coll, c) ==
  /\ uuid_string[c] \in DOMAIN coll.characteristics
  /\ coll.characteristics[uuid_string[c]] = [obj |-> c, uuid |-> uuid_string[c]]

HasDescriptor(coll, d) ==
  /\ DescriptorHandle[d] \in DOMAIN coll.descriptors
  /\ coll.descriptors[DescriptorHandle[d]] =
       [obj |-> d, handle |-> DescriptorHandle[d],
        characteristic_uuid |-> uuid_string[CharacteristicOf[d]]]

\* coll holds a characteristic with all its descriptors, a service with all
\* its characteristics and their descriptors
CharacteristicSubtree(coll, c) ==
  /\ HasCharacteristic(coll, c)
  /\ \A d \in Elements(PeripheralDescriptors[c]) : HasDescriptor(coll, d)

ServiceSubtree(coll, s) ==
  /\ HasService(coll, s)
  /\ \A c \in Elements(PeripheralCharacteristics[s]) : CharacteristicSubtree(coll, c)

\* C16: discovery is sequential and depth-first.  A pass issues a request
\* only when it begins or in the step that answers its previous request, so
\* it never has two outstanding.  A service enters the collection only in
\* the step in which its characteristic list is received; a characteristic
\* only in the step in which its descriptor list is received, its service
\* being in the collection already, and its descriptors enter in that step;
\* a descriptor's entry carries the UUID of its characteristic, which is in
\* the collection.  The characteristics of a service are requested only when
\* the subtrees of all earlier services are in the collection, and the
\* descriptors of a characteristic only when its service and the subtrees of
\* its earlier siblings are.
C16_DepthFirstDiscovery ==
  [][/\ \A t \in Tasks :
          (pc'[t] \in DiscoveryCalls /\ <<pc'[t], frame'[t]>> # <<pc[t], frame[t]>>)
            => /\ issued'[1] = pc'[t]
               /\ \/ pc[t] \in {"idle", "connect_"} /\ pc'[t] = "discoverServices"
                  \/ pc[t] = "discoverServices" /\ discoverServices_Response(t)
                  \/ pc[t] = "discoverCharacteristics_" /\ discoverCharacteristics_Response(t)
                  \/ pc[t] = "discoverDescriptors_" /\ discoverDescriptors_Response(t)
     /\ \A s \in Elements(PeripheralServices) :
          (uuid_string[s] \notin DOMAIN services.services
             /\ uuid_string[s] \in DOMAIN services'.services)
            => /\ HasService(services', s)
               /\ \E t \in Tasks : /\ discoverCharacteristics_Response(t)
                                   /\ frame[t].svcs[frame[t].si] = s
     /\ \A c \in AllCharacteristics :
          (uuid_string[c] \notin DOMAIN services.characteristics
             /\ uuid_string[c] \in DOMAIN services'.characteristics)
            => /\ CharacteristicSubtree(services', c)
               /\ HasService(services, ServiceOf[c])
               /\ \E t \in Tasks : /\ discoverDescriptors_Response(t)
                                   /\ frame[t].chs[frame[t].ci] = c
     /\ \A d \in DOMAIN DescriptorHandle :
          (DescriptorHandle[d] \notin DOMAIN services.descriptors
             /\ DescriptorHandle[d] \in DOMAIN services'.descriptors)
            => /\ HasDescriptor(services', d)
               /\ HasCharacteristic(services', CharacteristicOf[d])
     /\ DOMAIN services'.services \subseteq {uuid_string[s] : s \in Elements(PeripheralServices)}
     /\ DOMAIN services'.characteristics \subseteq {uuid_string[c] : c \in AllCharacteristics}
     /\ DOMAIN services'.descriptors \subseteq {DescriptorHandle[d] : d \in DOMAIN DescriptorHandle}
     /\ \A s \in Elements(PeripheralServices) :
          issued' = <<"discoverCharacteristics_", s>>
            => \A s0 \in Earlier(PeripheralServices, s) : ServiceSubtree(services', s0)
     /\ \A c \in AllCharacteristics :
          issued' = <<"discoverDescriptors_", c>>
            => /\ HasService(services', ServiceOf[c])
               /\ \A c0 \in Earlier(PeripheralCharacteristics[ServiceOf[c]], c) :
                    CharacteristicSubtree(services', c0)]_vars

\* a first pass waits for the characteristics of the second service: the
\* first service, both its characteristics and the descriptor are in the
\* collection, the second service is not
C16_Witness ==
  /\ issued = <<"discoverCharacteristics_", "s2">>
  /\ ServiceSubtree(services, "s1")
  /\ ~ HasService(services, "s2")

\* the operations other than connect and get_services
NonDiscoveryOps ==
  {"read_gatt_char", "read_gatt_descriptor", "write_gatt_char", "write_gatt_descriptor",
   "start_notify", "stop_notify", "disconnect"}

\* C17: only discovery mutates the collection.  A step in which
\* read_gatt_char, read_gatt_descriptor, write_gatt_char,
\* write_gatt_descriptor, start_notify, stop_notify or disconnect is called,
\* returns or raises leaves the collection as it was; and every step that
\* changes the collection is the arrival of a characteristic list or of a
\* descriptor list in a discovery pass.
C17_OnlyDiscoveryMutates ==
  [][/\ (invoked'.op \in NonDiscoveryOps \/ returned'.op \in NonDiscoveryOps)
          => services' = services
     /\ \A t \in Tasks :
          (frame[t].op \in NonDiscoveryOps /\ <<pc'[t], frame'[t]>> # <<pc[t], frame[t]>>)
            => services' = services
     /\ services' # services
          => \E t \in Tasks : \/ discoverCharacteristics_Response(t)
                             \/ discoverDescriptors_Response(t)]_vars

\* disconnect has returned, and the collection still holds both services and
\* the whole subtree of the first
C17_Witness ==
  /\ returned = [op |-> "disconnect", status |-> "ok", uuid |-> <<>>, handle |-> -1]
  /\ ServiceSubtree(services, "s1")
  /\ HasService(services, "s2")

\* C18: connect() scans, then connects the adapter, then discovers.  The
\* adapter connect is requested only in the step that ends the scan; a
\* discovery request of connect() is issued only in the step in which the
\* adapter connect completes, or in the step that answers the previous
\* discovery request of the same call; connect() returns true only in the
\* step that ends its discovery pass, with every service, characteristic and
\* descriptor of the peripheral in the collection; and when the adapter
\* fails the scan, the connect or a discovery request, connect() raises.
C18_ConnectOrder ==
  [][\A t \in Tasks :
       /\ (pc'[t] = "connect_" /\ <<pc'[t], frame'[t]>> # <<pc[t], frame[t]>>)
            => /\ pc[t] = "scanForPeripherals_" /\ frame[t].op = "connect"
               /\ issued' = <<"connect_", _device_info'>>
       /\ (pc'[t] \in DiscoveryCalls /\ frame'[t].caller = "connect"
             /\ <<pc'[t], frame'[t]>> # <<pc[t], frame[t]>>)
            => /\ issued'[1] = pc'[t]
               /\ \/ pc[t] = "connect_" /\ pc'[t] = "discoverServices" /\ isConnected'
                  \/ pc[t] \in DiscoveryCalls /\ frame[t].caller = "connect"
       /\ (pc[t] # "idle" /\ pc'[t] = "idle" /\ returned'.op = "connect"
             /\ returned'.status = "ok")
            => /\ pc[t] \in DiscoveryCalls /\ frame[t].caller = "connect"
               /\ ~ Adapter_Error(t)
               /\ frame[t].si = Len(PeripheralServices)
               /\ \A s \in Elements(PeripheralServices) : ServiceSubtree(services', s)
               /\ _services_resolved'
       /\ ((frame[t].op = "connect" \/ frame[t].caller = "connect") /\ Adapter_Error(t))
            => /\ returned'.op = "connect" /\ returned'.status = "AdapterFailure"
               /\ issued' = <<>>]_vars

\* connect() has returned true: the session is connected and the collection
\* holds the whole tree of the peripheral
C18_Witness ==
  /\ returned = [op |-> "connect", status |-> "ok", uuid |-> <<>>, handle |-> -1]
  /\ isConnected /\ _services_resolved
  /\ \A s \in Elements(PeripheralServices) : ServiceSubtree(services, s)
  /\ \A t \in Tasks : pc[t] = "idle"

(***************************************************************************)
(* Properties of the server's "async with"                                 *)
(***************************************************************************)
\* the number of times x occurs in a sequence
Occurrences(seq, x) == Cardinality({i \in 1..Len(seq) : seq[i] = x})

\* C9: start() runs exactly once on acquisition, before the body; stop() runs
\* exactly once on release, after the body, whether the body completed or
\* raised.
C9_StartStopBracket ==
  /\ srv_calls.start = srv_uses
  /\ srv_pc \in {"aenter", "body"}
       => /\ Head(srv_trace) = "start" /\ Occurrences(srv_trace, "start") = 1
          /\ Occurrences(srv_trace, "stop") = 0
  /\ (srv_pc \in {"aexit", "left"} /\ Occurrences(srv_trace, "end") = 1)
       => /\ Head(srv_trace) = "start" /\ Occurrences(srv_trace, "start") = 1
          /\ srv_trace[Len(srv_trace)] = "stop" /\ Occurrences(srv_trace, "stop") = 1
          /\ srv_trace[Len(srv_trace) - 1] = "end"
  /\ (srv_pc = "left" /\ srv_exc \in {None, "body"} /\ srv_uses > 0)
       => Occurrences(srv_trace, "stop") = 1

\* a body that raised has been left, with start() before it and stop() after
C9_Witness ==
  /\ srv_pc = "left" /\ srv_exc = "body"
  /\ srv_trace = <<"start", "body", "end", "stop">>

\* C19: an exception raised by the body is not suppressed: when stop()
\* returns, whatever it returns, the statement is left with the body's
\* exception, stop() being the last call made; no step that leaves __aexit__
\* clears a pending exception.  When start() raises, the statement is left
\* with that exception, start() is the only call made, stop() is not called,
\* and the next thing that can happen is a new "async with".
C19_BodyExceptionPropagates ==
  [][/\ (srv_exc = "body" /\ stop_returns)
          => /\ srv_pc' = "left" /\ srv_exc' = "body"
             /\ srv_trace'[Len(srv_trace')] = "stop"
             /\ Occurrences(srv_trace', "stop") = 1
             /\ ~ srv_running'
     /\ (srv_pc = "aexit" /\ srv_exc # None /\ srv_pc' = "left") => srv_exc' # None
     /\ start_raises
          => /\ srv_pc' = "left" /\ srv_exc' = "start"
             /\ srv_trace' = <<"start">>
             /\ srv_calls'.stop = srv_calls.stop
     /\ (srv_pc = "left" /\ srv_exc = "start")
          => /\ srv_trace = <<"start">>
             /\ srv_pc' = "aenter" /\ srv_uses' = srv_uses + 1
             /\ srv_calls'.stop = srv_calls.stop]_vars

\* a first use was left through stop(); in the second start() has raised:
\* only start() was called, and stop() only once in all
C19_Witness ==
  /\ srv_pc = "left" /\ srv_exc = "start"
  /\ srv_trace = <<"start">>
  /\ srv_uses = 2 /\ srv_calls = [start |-> 2, stop |-> 1]

====
